---- MODULE Spec2Model ----
(***************************************************************************)
(* The item list of src/src/App.tsx: the form state of FormProvider, the   *)
(* item collection of App with its add / update / delete handlers, and the *)
(* view that App computes on every render (filter, sort, paginate).        *)
(*                                                                         *)
(* Strings are sequences of one-character strings, so that length,         *)
(* toLowerCase, includes and localeCompare are computed, not assumed.      *)
(* Time is counted in clock ticks; Date.prototype.toString keeps whole     *)
(* seconds only, so a stored date is the second a tick falls in.           *)
(***************************************************************************)
EXTENDS Integers, Sequences, FiniteSets

VARIABLES
    items,           \* App: useState<Item[]>
    storage,         \* localStorage['items'], written by the effect on [items]
    nome,            \* FormProvider: useState('')
    descricao,       \* FormProvider: useState('')
    prioridade,      \* FormProvider: useState<Priority>('baixa')
    editId,          \* FormProvider: useState<number | null>(null)
    isValid,         \* FormProvider: useState(true)
    showModal,       \* App: useState(false)
    currentPage,     \* App: useState(1)
    filterPriority,  \* App: useState<Priority | ''>('')
    sortOrder,       \* App: useState<'asc' | 'desc'>('asc')
    activeFilter,    \* App: useState('priority')
    searchName,      \* App: useState('')
    now,             \* the wall clock, in ticks, as last read by new Date()
    lastOp           \* history: the handler that ran last and the id it used

vars == <<items, storage, nome, descricao, prioridade, editId, isValid, showModal,
          currentPage, filterPriority, sortOrder, activeFilter, searchName, now, lastOp>>

formVars == <<nome, descricao, prioridade, editId, showModal>>
viewVars == <<currentPage, filterPriority, sortOrder, activeFilter, searchName>>

-----------------------------------------------------------------------------
(* Bounds of the model *)

MaxItems == 2
MaxTime == 2
TicksPerSecond == 2

(* Program constants *)

itemsPerPage == 10
MinLength == 3
NullId == 0
NoDate == -1
FirstPage == 1

Priority == {"baixa", "média", "alta"}
EmptyStr == <<>>

-----------------------------------------------------------------------------
(* Strings *)

Alphabet == <<"a", "b", "c", "d", "e", "k", "o", "s">>

LowerChar(c) ==
    CASE c = "A" -> "a"
      [] c = "B" -> "b"
      [] c = "C" -> "c"
      [] c = "D" -> "d"
      [] OTHER -> c

IsUpper(c) == LowerChar(c) # c

toLowerCase(s) == [i \in DOMAIN s |-> LowerChar(s[i])]

includes(s, sub) ==
    \E i \in 0..(Len(s) - Len(sub)) : SubSeq(s, i + 1, i + Len(sub)) = sub

CharRank(c) == CHOOSE i \in DOMAIN Alphabet : Alphabet[i] = LowerChar(c)

Min(a, b) == IF a < b THEN a ELSE b
Max(a, b) == IF a > b THEN a ELSE b

\* String.prototype.localeCompare under the default collation: letters are
\* compared alphabetically without regard to case, a prefix sorts first, and
\* only between otherwise equal strings does lower case sort before upper case.
localeCompare(a, b) ==
    LET n == Min(Len(a), Len(b))
        primary == {i \in 1..n : CharRank(a[i]) # CharRank(b[i])}
        tertiary == {i \in 1..n : a[i] # b[i]}
        first(S) == CHOOSE i \in S : \A j \in S : i <= j
    IN  IF primary # {}
        THEN IF CharRank(a[first(primary)]) < CharRank(b[first(primary)]) THEN -1 ELSE 1
        ELSE IF Len(a) # Len(b)
        THEN IF Len(a) < Len(b) THEN -1 ELSE 1
        ELSE IF tertiary # {}
        THEN IF IsUpper(b[first(tertiary)]) THEN -1 ELSE 1
        ELSE 0

-----------------------------------------------------------------------------
(* Dates *)

\* new Date().toString(): the date down to the second, the milliseconds dropped.
DateToString(t) == t \div TicksPerSecond

\* new Date(str).getTime(): the start of the second the string names.
getTime(str) == str * TicksPerSecond

-----------------------------------------------------------------------------
(* Persistence: JSON.stringify leaves an undefined field out, JSON.parse      *)
(* gives back an object without it.                                           *)

StringifyItem(item) ==
    IF item.data_modificacao = NoDate
    THEN [id |-> item.id, nome |-> item.nome, descricao |-> item.descricao,
          data_criacao |-> item.data_criacao, prioridade |-> item.prioridade]
    ELSE item

ParseItem(obj) ==
    IF "data_modificacao" \in DOMAIN obj
    THEN obj
    ELSE [id |-> obj.id, nome |-> obj.nome, descricao |-> obj.descricao,
          data_criacao |-> obj.data_criacao, data_modificacao |-> NoDate,
          prioridade |-> obj.prioridade]

Stringify(its) == [i \in DOMAIN its |-> StringifyItem(its[i])]
Parse(str) == [i \in DOMAIN str |-> ParseItem(str[i])]

-----------------------------------------------------------------------------
(* The view computed by every render of App *)

\* Math.ceil(n / d) for n >= 0
Ceil(n, d) == IF n % d = 0 THEN n \div d ELSE n \div d + 1

\* Array.prototype.slice(start, end): a negative index counts from the end,
\* and both are clamped to the array.
RelIndex(k, len) == IF k < 0 THEN Max(len + k, 0) ELSE Min(k, len)
slice(arr, start, end) ==
    SubSeq(arr, RelIndex(start, Len(arr)) + 1, RelIndex(end, Len(arr)))

compareNome(a, b) == localeCompare(a.nome, b.nome)
compareDataAsc(a, b) == getTime(a.data_criacao) - getTime(b.data_criacao)
compareDataDesc(a, b) == getTime(b.data_criacao) - getTime(a.data_criacao)

\* the comparator handed to sort: by name, or by date in either direction
Compare(cmp, a, b) ==
    CASE cmp = "nome" -> compareNome(a, b)
      [] cmp = "asc" -> compareDataAsc(a, b)
      [] cmp = "desc" -> compareDataDesc(a, b)

\* Array.prototype.sort(cmp): stable; x goes before the first element that
\* compares greater than it.
RECURSIVE InsertSorted(_, _, _)
InsertSorted(sorted, x, cmp) ==
    IF sorted = <<>> THEN <<x>>
    ELSE IF Compare(cmp, Head(sorted), x) > 0 THEN <<x>> \o sorted
    ELSE <<Head(sorted)>> \o InsertSorted(Tail(sorted), x, cmp)

RECURSIVE sort(_, _)
sort(arr, cmp) ==
    IF arr = <<>> THEN <<>>
    ELSE InsertSorted(sort(SubSeq(arr, 1, Len(arr) - 1), cmp), arr[Len(arr)], cmp)

\* the predicate of items.filter: both conditions, whatever the active mode
FilterPredicate(item, fp, sn) ==
    /\ (IF fp # "" THEN item.prioridade = fp ELSE TRUE)
    /\ (IF sn # EmptyStr THEN includes(toLowerCase(item.nome), toLowerCase(sn)) ELSE TRUE)

FilterItems(its, fp, sn) == SelectSeq(its, LAMBDA item : FilterPredicate(item, fp, sn))

SortItems(arr, af, so) ==
    IF af = "name" THEN sort(arr, "nome")
    ELSE IF af = "date" THEN sort(arr, so)
    ELSE arr

\* the sort applied to the items array itself, with no copy in between
StoredAfterRenderInPlace(its, af, so) == SortItems(its, af, so)

\* items.filter allocates the array that sort then reorders in place: the
\* array held in the items state is not the one sorted.
StoredAfterRender(its, af, so) == its

\* One render: the stored array after it, and what the render derives.
Render(its, fp, sn, af, so, page) ==
    LET indexOfLastItem == page * itemsPerPage
        indexOfFirstItem == indexOfLastItem - itemsPerPage
        filtered == SortItems(FilterItems(its, fp, sn), af, so)
    IN  [items |-> StoredAfterRender(its, af, so),
         filteredItems |-> filtered,
         totalPages |-> Ceil(Len(filtered), itemsPerPage),
         currentItems |-> slice(filtered, indexOfFirstItem, indexOfLastItem)]

\* what the last render showed: the closures of the handlers read these
view == Render(items, filterPriority, searchName, activeFilter, sortOrder, currentPage)
filteredItems == view.filteredItems
totalPages == view.totalPages
currentItems == view.currentItems

\* Every handler ends in a re-render and the effect that saves the items.
Rerender(its) ==
    /\ items' = Render(its, filterPriority', searchName', activeFilter', sortOrder',
                       currentPage').items
    /\ storage' = Stringify(items')

-----------------------------------------------------------------------------
(* FormProvider *)

\* validate with || where the code has &&
validateEither(n, d) == Len(n) >= MinLength \/ Len(d) >= MinLength

validate(n, d) == Len(n) >= MinLength /\ Len(d) >= MinLength

ClearedForm ==
    /\ nome' = EmptyStr
    /\ descricao' = EmptyStr
    /\ prioridade' = "baixa"
    /\ editId' = NullId
    /\ showModal' = FALSE

-----------------------------------------------------------------------------
(* Initial state: a first visit, nothing stored *)

Init ==
    /\ storage = <<>>
    /\ items = Parse(storage)
    /\ nome = EmptyStr
    /\ descricao = EmptyStr
    /\ prioridade = "baixa"
    /\ editId = NullId
    /\ isValid = TRUE
    /\ showModal = FALSE
    /\ currentPage = FirstPage
    /\ filterPriority = ""
    /\ sortOrder = "asc"
    /\ activeFilter = "priority"
    /\ searchName = EmptyStr
    /\ now = 0
    /\ lastOp = [op |-> "init", id |-> NullId]

-----------------------------------------------------------------------------
(* Handlers *)

SetNome(v) ==
    /\ v # nome
    /\ nome' = v
    /\ lastOp' = [op |-> "input", id |-> NullId]
    /\ UNCHANGED <<descricao, prioridade, editId, showModal, isValid, viewVars, now>>
    /\ Rerender(items)

SetDescricao(v) ==
    /\ v # descricao
    /\ descricao' = v
    /\ lastOp' = [op |-> "input", id |-> NullId]
    /\ UNCHANGED <<nome, prioridade, editId, showModal, isValid, viewVars, now>>
    /\ Rerender(items)

SetPrioridade(p) ==
    /\ p # prioridade
    /\ prioridade' = p
    /\ lastOp' = [op |-> "input", id |-> NullId]
    /\ UNCHANGED <<nome, descricao, editId, showModal, isValid, viewVars, now>>
    /\ Rerender(items)

NewItem(its, n, d, p, t) ==
    [id |-> Len(its) + 1, nome |-> n, descricao |-> d,
     data_criacao |-> DateToString(t), data_modificacao |-> NoDate, prioridade |-> p]

\* addItem putting the new item first
AddResultFront(its, n, d, p, t) == <<NewItem(its, n, d, p, t)>> \o its

AddResult(its, n, d, p, t) == Append(its, NewItem(its, n, d, p, t))

\* addItem, the clock reading t when it runs
AddItem(t) ==
    /\ isValid' = validate(nome, descricao)
    /\ UNCHANGED viewVars
    /\ IF validate(nome, descricao)
       THEN /\ Len(items) < MaxItems
            /\ now' = t
            /\ ClearedForm
            /\ lastOp' = [op |-> "add", id |-> Len(items) + 1]
            /\ Rerender(AddResult(items, nome, descricao, prioridade, t))
       ELSE /\ t = now
            /\ lastOp' = [op |-> "add", id |-> NullId]
            /\ UNCHANGED <<formVars, now>>
            /\ Rerender(items)

UpdatedItem(item, n, d, p, t) ==
    [item EXCEPT !.nome = n, !.descricao = d, !.prioridade = p,
                 !.data_modificacao = DateToString(t)]

\* updateItem inserting the form as a new item when no item has the id
UpdateOrInsert(its, id, n, d, p, t) ==
    IF \E i \in DOMAIN its : its[i].id = id
    THEN [i \in DOMAIN its |->
             IF its[i].id = id THEN UpdatedItem(its[i], n, d, p, t) ELSE its[i]]
    ELSE Append(its, UpdatedItem(NewItem(its, n, d, p, t), n, d, p, t))

UpdateResult(its, id, n, d, p, t) ==
    [i \in DOMAIN its |-> IF its[i].id = id THEN UpdatedItem(its[i], n, d, p, t) ELSE its[i]]

\* updateItem, the clock reading t when it runs
UpdateItem(t) ==
    /\ showModal
    /\ isValid' = validate(nome, descricao)
    /\ UNCHANGED viewVars
    /\ lastOp' = [op |-> "update", id |-> editId]
    /\ IF validate(nome, descricao) /\ editId # NullId
       THEN /\ now' = t
            /\ ClearedForm
            /\ Rerender(UpdateResult(items, editId, nome, descricao, prioridade, t))
       ELSE /\ t = now
            /\ UNCHANGED <<formVars, now>>
            /\ Rerender(items)

\* clearForm as the handler of the modal's cancel button
ClearForm ==
    /\ showModal
    /\ ClearedForm
    /\ lastOp' = [op |-> "cancel", id |-> NullId]
    /\ UNCHANGED <<isValid, viewVars, now>>
    /\ Rerender(items)

\* deleteItem taking the id for a position in the list
DeleteAtIndex(its, id) ==
    SubSeq(its, 1, Min(id - 1, Len(its))) \o SubSeq(its, id + 1, Len(its))

DeleteResult(its, id) == SelectSeq(its, LAMBDA item : item.id # id)

DeleteItem(id) ==
    /\ lastOp' = [op |-> "delete", id |-> id]
    /\ UNCHANGED <<formVars, isValid, viewVars, now>>
    /\ Rerender(DeleteResult(items, id))

StartEdit(item) ==
    /\ nome' = item.nome
    /\ descricao' = item.descricao
    /\ prioridade' = item.prioridade
    /\ editId' = item.id
    /\ showModal' = TRUE
    /\ lastOp' = [op |-> "edit", id |-> item.id]
    /\ UNCHANGED <<isValid, viewVars, now>>
    /\ Rerender(items)

SetActiveFilter(f) ==
    /\ activeFilter' = f
    /\ f # activeFilter
    /\ lastOp' = [op |-> "filter", id |-> NullId]
    /\ UNCHANGED <<formVars, isValid, currentPage, filterPriority, sortOrder, searchName, now>>
    /\ Rerender(items)

\* the select shown in priority mode
SetFilterPriority(p) ==
    /\ activeFilter = "priority"
    /\ p # filterPriority
    /\ filterPriority' = p
    /\ lastOp' = [op |-> "filter", id |-> NullId]
    /\ UNCHANGED <<formVars, isValid, currentPage, activeFilter, sortOrder, searchName, now>>
    /\ Rerender(items)

\* the text input shown in name mode
SetSearchName(s) ==
    /\ activeFilter = "name"
    /\ s # searchName
    /\ searchName' = s
    /\ lastOp' = [op |-> "filter", id |-> NullId]
    /\ UNCHANGED <<formVars, isValid, currentPage, activeFilter, sortOrder, filterPriority, now>>
    /\ Rerender(items)

\* the select shown in date mode
SetSortOrder(o) ==
    /\ activeFilter = "date"
    /\ o # sortOrder
    /\ sortOrder' = o
    /\ lastOp' = [op |-> "filter", id |-> NullId]
    /\ UNCHANGED <<formVars, isValid, currentPage, activeFilter, filterPriority, searchName, now>>
    /\ Rerender(items)

\* "Anterior", disabled on page 1
PreviousPage ==
    /\ currentPage # 1
    /\ currentPage' = Max(currentPage - 1, 1)
    /\ lastOp' = [op |-> "page", id |-> NullId]
    /\ UNCHANGED <<formVars, isValid, filterPriority, sortOrder, activeFilter, searchName, now>>
    /\ Rerender(items)

\* "Próxima", disabled on the last page
NextPage ==
    /\ currentPage # totalPages
    /\ currentPage' = Min(currentPage + 1, totalPages)
    /\ lastOp' = [op |-> "page", id |-> NullId]
    /\ UNCHANGED <<formVars, isValid, filterPriority, sortOrder, activeFilter, searchName, now>>
    /\ Rerender(items)

\* The page is loaded again: every useState starts over, the items come
\* from localStorage.
Reload ==
    /\ items' = Parse(storage)
    /\ storage' = Stringify(items')
    /\ nome' = EmptyStr
    /\ descricao' = EmptyStr
    /\ prioridade' = "baixa"
    /\ editId' = NullId
    /\ isValid' = TRUE
    /\ showModal' = FALSE
    /\ currentPage' = FirstPage
    /\ filterPriority' = ""
    /\ sortOrder' = "asc"
    /\ activeFilter' = "priority"
    /\ searchName' = EmptyStr
    /\ lastOp' = [op |-> "reload", id |-> NullId]
    /\ UNCHANGED now

-----------------------------------------------------------------------------
(* Inputs *)

NameInputs == {<<"a", "b">>, <<"a", "b", "c">>, <<"B", "c", "d">>}
\* the longer description ends in a blank: its length counts as typed
DescricaoInputs == {<<"o", "k">>, <<"d", "e", " ">>}
PriorityInputs == {"baixa", "alta"}
SearchInputs == {EmptyStr, <<"A", "B">>}
FilterModes == {"priority", "name", "date"}
SortOrders == {"asc", "desc"}

\* a clock reading: the clock stands still or has gone on one tick
Readings == {t \in {now, now + 1} : t <= MaxTime}

DisplayedItems == {currentItems[i] : i \in DOMAIN currentItems}

FormInputFrom(N, D, P) ==
    \/ \E v \in N : SetNome(v)
    \/ \E v \in D : SetDescricao(v)
    \/ \E p \in P : SetPrioridade(p)

FormInput == FormInputFrom(NameInputs, DescricaoInputs, PriorityInputs)

FilterInput ==
    \/ \E f \in FilterModes : SetActiveFilter(f)
    \/ \E p \in PriorityInputs \cup {""} : SetFilterPriority(p)
    \/ \E s \in SearchInputs : SetSearchName(s)
    \/ \E o \in SortOrders : SetSortOrder(o)

\* Every handler of the page. The modal is an overlay without a focus trap:
\* the controls behind it stay reachable from the keyboard while it is open.
Next ==
    \/ FormInput
    \/ \E t \in Readings : AddItem(t)
    \/ \E item \in DisplayedItems : StartEdit(item)
    \/ \E t \in Readings : UpdateItem(t)
    \/ ClearForm
    \/ \E item \in DisplayedItems : DeleteItem(item.id)
    \/ FilterInput
    \/ PreviousPage
    \/ NextPage
    \/ Reload

Spec == Init /\ [][Next]_vars

\* The specifications below take their steps from the same handlers, each
\* with the part of the page its properties are about.

-----------------------------------------------------------------------------------------------------------------------------------------------------
(* The item handlers alone: the filter controls are left as loaded and every *)
(* handler runs within one tick of the clock.                                *)

FormHandlers ==
    \/ FormInput
    \/ AddItem(now)
    \/ \E item \in DisplayedItems : StartEdit(item)
    \/ UpdateItem(now)
    \/ ClearForm
    \/ Reload

NextCrud ==
    \/ FormHandlers
    \/ \E item \in DisplayedItems : DeleteItem(item.id)

SpecCrud == Init /\ [][NextCrud]_vars

\* deleteItem called with any id, shown or not
IdInputs == 1..(MaxItems + 1)

NextCtl ==
    \/ FormInput
    \/ AddItem(now)
    \/ \E id \in IdInputs : DeleteItem(id)
    \/ Reload

SpecCtl == Init /\ [][NextCtl]_vars

\* adds only, the clock running
NextAdd ==
    \/ FormInput
    \/ \E t \in Readings : AddItem(t)
    \/ Reload

SpecAdd == Init /\ [][NextAdd]_vars

\* The view. The visit starts from what an earlier visit left in
\* localStorage: a collection built by addItem from valid forms. Items are
\* deleted, the filter controls and the page buttons are used freely; the
\* form is left alone.
ValidNames == {v \in NameInputs : validate(v, v)}
ValidDescricoes == {v \in DescricaoInputs : validate(v, v)}

LastSecond(c) == IF c = <<>> THEN 0 ELSE c[Len(c)].data_criacao

\* what addItem can append to the stored collection c
Additions(c) ==
    {AddResult(c, v, d, p, t) :
        v \in ValidNames, d \in ValidDescricoes, p \in PriorityInputs,
        t \in {u \in 0..MaxTime : DateToString(u) >= LastSecond(c)}}

RECURSIVE AddedCollections(_)
AddedCollections(n) ==
    IF n = 0 THEN {<<>>}
    ELSE LET shorter == AddedCollections(n - 1)
         IN  shorter \cup UNION {Additions(c) : c \in {x \in shorter : Len(x) = n - 1}}

InitView ==
    /\ storage \in {Stringify(c) : c \in AddedCollections(MaxItems)}
    /\ items = Parse(storage)
    /\ nome = EmptyStr
    /\ descricao = EmptyStr
    /\ prioridade = "baixa"
    /\ editId = NullId
    /\ isValid = TRUE
    /\ showModal = FALSE
    /\ currentPage = FirstPage
    /\ filterPriority = ""
    /\ sortOrder = "asc"
    /\ activeFilter = "priority"
    /\ searchName = EmptyStr
    /\ now = MaxTime
    /\ lastOp = [op |-> "init", id |-> NullId]

NextView ==
    \/ \E item \in DisplayedItems : DeleteItem(item.id)
    \/ FilterInput
    \/ PreviousPage
    \/ NextPage

SpecView == InitView /\ [][NextView]_vars

-----------------------------------------------------------------------------
(* Properties *)

Ids(its) == {its[i].id : i \in DOMAIN its}
LengthsOk == Len(nome) >= 3 /\ Len(descricao) >= 3

\* C1: in every reachable state the ids of the items are pairwise distinct.
IdsDistinct ==
    \A i, j \in DOMAIN items : i # j => items[i].id # items[j].id

\* C2: add succeeds iff name and description both have length >= 3; a
\* successful add appends exactly one item; a failed add leaves the
\* collection and the form fields alone and sets isValid to false; an update
\* that fails validation changes no item and sets isValid to false.
ValidationDecides ==
    [][ /\ (lastOp'.op = "add" /\ LengthsOk) =>
               /\ Len(items') = Len(items) + 1
               /\ SubSeq(items', 1, Len(items)) = items
        /\ (lastOp'.op = "add" /\ ~LengthsOk) =>
               /\ items' = items
               /\ nome' = nome /\ descricao' = descricao
               /\ prioridade' = prioridade /\ editId' = editId
               /\ isValid' = FALSE
        /\ (lastOp'.op = "update" /\ ~LengthsOk) =>
               /\ items' = items
               /\ isValid' = FALSE ]_vars

\* an add has just failed on a short description, the form still filled in,
\* after an earlier add succeeded
FailedAddSeen ==
    /\ lastOp = [op |-> "add", id |-> NullId]
    /\ ~isValid
    /\ Len(nome) >= 3 /\ Len(descricao) = 2
    /\ Len(items) >= 1

\* C3: a successful update changes one item, the one with the form's editId:
\* its name, description and priority become the form's, modifiedAt is set,
\* id and createdAt stay; every other item, the length and the order stay.
UpdateChangesOneItem ==
    [][ (lastOp'.op = "update" /\ LengthsOk /\ editId \in Ids(items)) =>
            /\ Len(items') = Len(items)
            /\ \E k \in DOMAIN items :
                  /\ items[k].id = editId
                  /\ items'[k].id = items[k].id
                  /\ items'[k].data_criacao = items[k].data_criacao
                  /\ items'[k].nome = nome
                  /\ items'[k].descricao = descricao
                  /\ items'[k].prioridade = prioridade
                  /\ items'[k].data_modificacao # NoDate
                  /\ \A j \in DOMAIN items : j # k => items'[j] = items[j] ]_vars

\* C6: delete(id) leaves exactly the items whose id differs, in their order
\* and with their ids; it changes nothing when no item has the id; deleting
\* the same id again changes nothing more.
Kept(its, id) == {i \in DOMAIN its : its[i].id # id}
NthKept(its, id, n) ==
    CHOOSE i \in Kept(its, id) : Cardinality({j \in Kept(its, id) : j <= i}) = n

DeleteLeavesTheOthers ==
    [][ lastOp'.op = "delete" =>
            /\ Len(items') = Cardinality(Kept(items, lastOp'.id))
            /\ \A n \in DOMAIN items' : items'[n] = items[NthKept(items, lastOp'.id, n)]
            /\ (lastOp'.id \notin Ids(items) => items' = items)
            /\ DeleteResult(items', lastOp'.id) = items' ]_vars

\* a delete has left behind a later item, still under its own id
DeleteSeen ==
    /\ lastOp.op = "delete"
    /\ Len(items) = 1
    /\ items[1].id = 2

\* C7: from an empty collection and with no deletion, the k-th item added
\* has id k and the items are stored in the order they were added.
IdsCountUp ==
    /\ \A k \in DOMAIN items : items[k].id = k
    /\ \A i, j \in DOMAIN items : i < j => items[i].data_criacao <= items[j].data_criacao

\* a second item has just been added, a second later than the first
SecondAddSeen ==
    /\ lastOp.op = "add"
    /\ Len(items) >= 2
    /\ items[1].data_criacao < items[2].data_criacao

\* C10: an update whose editId is none, or is the id of no item, changes no
\* item and adds or removes none.
StaleUpdateChangesNothing ==
    [][ (lastOp'.op = "update" /\ editId \notin Ids(items)) => items' = items ]_vars

\* an update has passed validation (the form is cleared) for an id that no
\* item has any more
StaleUpdateSeen ==
    /\ lastOp.op = "update"
    /\ lastOp.id # NullId
    /\ lastOp.id \notin Ids(items)
    /\ isValid /\ editId = NullId /\ ~showModal
    /\ Len(items) >= 1

\* C4: for f filtered items totalPages is ceil(f / 10), and it is 1 when
\* f = 0, page 1 then showing an empty slice.
TotalPagesIsCeil ==
    LET f == Len(filteredItems)
    IN  /\ f > 0 => /\ totalPages * 10 >= f
                    /\ (totalPages - 1) * 10 < f
        /\ f = 0 => /\ totalPages = 1
                    /\ (currentPage = 1 => currentItems = <<>>)

\* C5: only the predicate of the active mode is applied. In priority mode
\* with a priority chosen the view is the items of that priority, in stored
\* order, whatever search text is left over; in name mode every item whose
\* name contains the search text is shown and in date mode every item is,
\* whatever priority is left over.
Matches(item, text) ==
    \E i \in 0..(Len(item.nome) - Len(text)) :
        \A k \in 1..Len(text) : LowerChar(item.nome[i + k]) = LowerChar(text[k])

Shown(item) == \E i \in DOMAIN filteredItems : filteredItems[i] = item

OnlyActiveModeFilters ==
    /\ (activeFilter = "priority" /\ filterPriority # "") =>
           filteredItems = SelectSeq(items, LAMBDA item : item.prioridade = filterPriority)
    /\ activeFilter = "name" =>
           \A i \in DOMAIN items : Matches(items[i], searchName) => Shown(items[i])
    /\ activeFilter = "date" =>
           \A i \in DOMAIN items : Shown(items[i])

\* C8: in every reachable state the current page is within 1..totalPages.
PageInRange == currentPage >= 1 /\ currentPage <= totalPages

\* C9: computing the view leaves the stored collection as it is, whatever
\* the filter mode, the sort order and the page; the stored collection
\* changes only when add appends an item or delete removes items.
IsRemoval(before, after) ==
    \E id \in Ids(before) :
        /\ Len(after) = Cardinality(Kept(before, id))
        /\ \A n \in DOMAIN after : after[n] = before[NthKept(before, id, n)]

IsAppend(before, after) ==
    /\ Len(after) = Len(before) + 1
    /\ SubSeq(after, 1, Len(before)) = before

====
